---- MODULE Spec2Model ----
(***************************************************************************)
(* OAuth 2.0 token lifecycle (src/src/auth-manager.ts) and the interactive *)
(* setup flow with its local callback listener (src/src/setup-auth.ts).    *)
(*                                                                         *)
(* Times are milliseconds, as Date.now().  Tokens issued by the provider   *)
(* are numbered 1, 2, ...; a JavaScript object is a function from the keys *)
(* it has to their values, and Undefined is the value of a key that is set *)
(* to undefined and of a key that is read but not there.                   *)
(***************************************************************************)
EXTENDS Integers, Sequences, FiniteSets, TLC

\* ---------------------------------------------------------------- bounds
MaxTicks == 1          \* clock advances per behaviour
MaxIssued == 3         \* tokens the provider issues per behaviour
MaxReq == 2            \* HTTP requests the callback listener receives

\* ------------------------------------------------------ program constants
RefreshBufferMs == 5 * 60 * 1000
TokenLifetimeMs == 7200 * 1000

\* ------------------------------------------------------------ test values
StartTime == 100000000
TickSteps == {5 * 60 * 1000, 115 * 60 * 1000}
TimeoutMs == 5 * 60 * 1000

\* who calls getValidTokens: tool calls of the server process, setup(), and
\* the testAuthentication run of each callback request
ReqIds == 1..MaxReq
SrvCallers == {<<"srv", 1>>, <<"srv", 2>>}
SetupCaller == <<"setup", 0>>
ReqCaller(i) == <<"req", i>>
Callers == SrvCallers \cup {SetupCaller} \cup {ReqCaller(i) : i \in ReqIds}

Undefined == -1
Null == <<>>
Some(x) == <<x>>

\* truthiness of a number or of a token string (0 stands for "" and 0)
Truthy(v) == v # Undefined /\ v # 0

\* obj.key
Field(obj, key) == IF key \in DOMAIN obj THEN obj[key] ELSE Undefined

\* { accessToken, refreshToken, expiresAt }
TokensObject(a, r, e) == [accessToken |-> a, refreshToken |-> r, expiresAt |-> e]

\* the refreshToken key is not written
JSONstringify_DropsRefreshToken(obj) ==
    LET keep == {k \in DOMAIN obj : obj[k] # Undefined /\ k # "refreshToken"}
    IN  [k \in keep |-> obj[k]]

\* JSON.stringify drops the keys whose value is undefined
JSONstringify(obj) ==
    LET keep == {k \in DOMAIN obj : obj[k] # Undefined}
    IN  [k \in keep |-> obj[k]]

\* the tokens file: not there, truncated by a write in progress, or JSON text
NoFile == <<>>
Partial == <<"partial">>
Json(text) == <<"json", text>>

\* loadTokens once the file has been seen to exist
ReadAndParse(file) ==
    IF file = NoFile THEN Null
    ELSE IF file = Partial THEN Null
    ELSE Some(file[2])

\* the comparison is <= instead of <
NeedsRefresh_Inclusive(tokens, t) ==
    /\ Truthy(Field(tokens, "expiresAt"))
    /\ Field(tokens, "expiresAt") <= t + RefreshBufferMs

\* the buffer is subtracted from the clock instead of added
NeedsRefresh_BufferSubtracted(tokens, t) ==
    /\ Truthy(Field(tokens, "expiresAt"))
    /\ Field(tokens, "expiresAt") < t - RefreshBufferMs

\* refreshes only once the token has expired: the 5-minute buffer is lost
NeedsRefresh_NoBuffer(tokens, t) ==
    /\ Truthy(Field(tokens, "expiresAt"))
    /\ Field(tokens, "expiresAt") < t

\* the buffer is written with one factor of 60 too many (5 hours)
NeedsRefresh_WideBuffer(tokens, t) ==
    /\ Truthy(Field(tokens, "expiresAt"))
    /\ Field(tokens, "expiresAt") < t + 5 * 60 * 60 * 1000

NeedsRefresh(tokens, t) ==
    /\ Truthy(Field(tokens, "expiresAt"))
    /\ Field(tokens, "expiresAt") < t + RefreshBufferMs

IdleCall == [pc |-> "idle", tokens |-> Null, checkedAt |-> 0, arg |-> Undefined,
             fresh |-> Null, result |-> Null, refreshCalls |-> 0,
             answer |-> Null, refreshed |-> "none", saved |-> "none",
             threw |-> FALSE, afterFailure |-> FALSE]

\* without the existsSync test and loadTokens' catch a missing file throws
BeginCall_Throws(file, dead) ==
    IF file = NoFile
      THEN [IdleCall EXCEPT !.pc = "returned", !.threw = TRUE, !.afterFailure = dead]
      ELSE [IdleCall EXCEPT !.pc = "reading", !.afterFailure = dead]

\* a getValidTokens call up to its first await: loadTokens' existsSync
BeginCall(file, dead) ==
    [IdleCall EXCEPT !.pc = IF file = NoFile THEN "returned" ELSE "reading",
                     !.afterFailure = dead]

VARIABLES
    tokensFile,     \* content of the file at tokensPath
    now,            \* Date.now()
    ticks,          \* clock advances so far
    issued,         \* number of the last token the provider issued
    gvt,            \* the getValidTokens call of each caller
    sessionDead,    \* a refresh has failed and no code exchange has saved since
    setupPc,        \* position of main() / setup() in the setup process
    exitCode,       \* exit code of the setup process, Undefined while it runs
    liveState,      \* OAuthSetup.state
    codeVerifier,   \* OAuthSetup.codeVerifier
    listening,      \* the callback server's socket is bound and accepting
    timer,          \* the 5-minute timer: "unset", "armed" or "fired"
    deadline,       \* when the timer is due
    promise,        \* the promise startCallbackServer returned
    req,            \* the handler run of each request
    lastReq,        \* path and query of the request that arrived last
    exchangeCalls,  \* loginWithOAuth2 calls made
    redeemed,       \* authorization codes the provider has exchanged
    outcomes,       \* terminal outcomes of the listener, in order
    env,            \* the process's environment: X_CLIENT_ID, X_CLIENT_SECRET,
                    \* X_REDIRECT_URI, and whether the platform's command
                    \* that opens a browser works
    tool            \* the run of the server's CallTool request handler

mgrVars == <<tokensFile, now, ticks, issued, gvt, sessionDead>>
setupVars == <<setupPc, exitCode, liveState, codeVerifier, listening, timer,
               deadline, promise, req, lastReq, exchangeCalls, redeemed,
               outcomes>>
vars == <<mgrVars, setupVars, env, tool>>

\* X_REDIRECT_URI || 'http://localhost:3000/callback' ("" is not set)
RedirectUri(e) ==
    IF e.redirectUri # "" THEN e.redirectUri ELSE "http://localhost:3000/callback"

\* the secret is not looked at
GetConfigThrows_OnlyClientId(e) == ~Truthy(e.clientId)

\* getConfig: !clientId || !clientSecret throws
GetConfigThrows(e) == ~Truthy(e.clientId) \/ ~Truthy(e.clientSecret)

\* environments: a value is not set, the empty string, or set
Envs ==
    [clientId : {Undefined, 0, 1}, clientSecret : {Undefined, 0, 1},
     redirectUri : {"", "http://localhost:8080/callback"},
     browser : BOOLEAN]

\* both credentials set, X_REDIRECT_URI not set, a browser can be opened
ConfiguredEnv ==
    [clientId |-> 1, clientSecret |-> 1, redirectUri |-> "", browser |-> TRUE]

\* no CallTool request is being handled
NoToolCall == [pc |-> "idle", name |-> "", args |-> Null, invoked |-> FALSE,
               thrown |-> [kind |-> "none", code |-> ""], response |-> "none"]

InitBundles ==
    { JSONstringify(TokensObject(1, r, e)) :
        r \in {Undefined, 1},
        e \in {Undefined, 0, StartTime + 4 * 60 * 1000,
               StartTime + RefreshBufferMs, StartTime + 60 * 60 * 1000} }

\* stored records that parse but are no token bundle: {} and a record
\* without accessToken
EmptyObject == [k \in {} |-> 0]
CorruptRecords == {EmptyObject, [refreshToken |-> 1]}

Pending == [state |-> "pending", reason |-> ""]

\* resolve() and reject() settle a promise once; later calls do nothing
Resolve(p) == IF p.state = "pending" THEN [state |-> "resolved", reason |-> ""] ELSE p
Reject(p, why) == IF p.state = "pending" THEN [state |-> "rejected", reason |-> why] ELSE p

NoRequest == [pc |-> "none", code |-> "", verifier |-> "", fresh |-> Null,
              at |-> 0, expiresIn |-> Undefined, response |-> 0, body |-> {}]
NoLast == [id |-> 0, path |-> "", query |-> <<>>]

Init ==
    /\ tokensFile \in {NoFile} \cup {Json(b) : b \in InitBundles \cup CorruptRecords}
    /\ now = StartTime
    /\ ticks = 0
    /\ issued = 1
    /\ gvt = [c \in Callers |-> IdleCall]
    /\ sessionDead = FALSE
    /\ setupPc = "init"
    /\ exitCode = Undefined
    /\ liveState = ""
    /\ codeVerifier = ""
    /\ listening = FALSE
    /\ timer = "unset"
    /\ deadline = 0
    /\ promise = Pending
    /\ req = [i \in ReqIds |-> NoRequest]
    /\ lastReq = NoLast
    /\ exchangeCalls = 0
    /\ redeemed = {}
    /\ outcomes = <<>>
    /\ env = ConfiguredEnv
    /\ tool = NoToolCall

Running == exitCode = Undefined

\* the clock advances; a timer that is due fires before the clock moves on
Tick ==
    /\ ticks < MaxTicks
    /\ \E d \in TickSteps :
         /\ (Running /\ timer = "armed") => now + d <= deadline
         /\ now' = now + d
    /\ ticks' = ticks + 1
    /\ UNCHANGED <<env, tool, tokensFile, issued, gvt, sessionDead, setupVars>>

\* ---------------------------------------------------------- getValidTokens
\* a tool call of the server process calls getValidTokens
GetValidTokens(c) ==
    /\ gvt[c].pc = "idle"
    /\ gvt' = [gvt EXCEPT ![c] = BeginCall(tokensFile, sessionDead)]
    /\ UNCHANGED <<env, tool, tokensFile, now, ticks, issued, sessionDead, setupVars>>

\* with no refresh token the stale bundle is returned instead of null
AfterLoad_ReturnsStale(call, file, t) ==
    LET loaded == ReadAndParse(file)
    IN  IF loaded = Null
          THEN [call EXCEPT !.pc = "returned"]
        ELSE IF NeedsRefresh(loaded[1], t)
                  /\ Truthy(Field(loaded[1], "refreshToken"))
          THEN [call EXCEPT !.pc = "refreshing", !.tokens = loaded,
                            !.checkedAt = t,
                            !.arg = Field(loaded[1], "refreshToken"),
                            !.refreshCalls = @ + 1]
        ELSE [call EXCEPT !.pc = "returned", !.tokens = loaded,
                          !.checkedAt = t, !.result = loaded]

\* the call record once readFile has completed: JSON.parse, the expiry
\* check, and refreshTokens' request to the provider
AfterLoad(call, file, t) ==
    LET loaded == ReadAndParse(file)
    IN  IF loaded = Null
          THEN [call EXCEPT !.pc = "returned"]
        ELSE IF NeedsRefresh(loaded[1], t)
          THEN IF Truthy(Field(loaded[1], "refreshToken"))
                 THEN [call EXCEPT !.pc = "refreshing", !.tokens = loaded,
                                   !.checkedAt = t,
                                   !.arg = Field(loaded[1], "refreshToken"),
                                   !.refreshCalls = @ + 1]
                 ELSE [call EXCEPT !.pc = "returned", !.tokens = loaded,
                                   !.checkedAt = t]
        ELSE [call EXCEPT !.pc = "returned", !.tokens = loaded,
                          !.checkedAt = t, !.result = loaded]

LoadDone(c) ==
    /\ gvt[c].pc = "reading"
    /\ gvt' = [gvt EXCEPT ![c] = AfterLoad(gvt[c], tokensFile, now)]
    /\ UNCHANGED <<env, tool, tokensFile, now, ticks, issued, sessionDead, setupVars>>

\* what refreshOAuth2Token and loginWithOAuth2 resolve with: a new access
\* token and, when the provider sends one, a new refresh token
ProviderTokens(n, withRefresh) ==
    [accessToken |-> n, refreshToken |-> IF withRefresh THEN n ELSE Undefined]

\* the old refresh token is not kept when the provider sends none
OrElse_NoFallback(a, b) == a

\* newRefreshToken || refreshToken
OrElse(a, b) == IF Truthy(a) THEN a ELSE b

\* the lifetime is added in seconds, not milliseconds
RefreshedTokens_LifetimeInSeconds(answer, refreshToken, t) ==
    TokensObject(answer.accessToken,
                 OrElse(answer.refreshToken, refreshToken),
                 t + 7200)

\* the bundle refreshTokens builds from the provider's answer
RefreshedTokens(answer, refreshToken, t) ==
    TokensObject(answer.accessToken,
                 OrElse(answer.refreshToken, refreshToken),
                 t + TokenLifetimeMs)

\* refreshOAuth2Token resolves; refreshTokens builds the bundle and starts
\* saveTokens' writeFile
RefreshOk(c) ==
    /\ gvt[c].pc = "refreshing"
    /\ issued < MaxIssued
    /\ \E rotate \in BOOLEAN :
         LET answer == ProviderTokens(issued + 1, rotate)
         IN  gvt' = [gvt EXCEPT ![c].pc = "saving",
                       ![c].refreshed = "ok",
                       ![c].answer = Some(answer),
                       ![c].fresh = Some(RefreshedTokens(answer, gvt[c].arg, now))]
    /\ issued' = issued + 1
    /\ UNCHANGED <<env, tool, tokensFile, now, ticks, sessionDead, setupVars>>

\* without getValidTokens' try/catch the error reaches the caller
AfterRefreshFailure_Rethrow(call) ==
    [call EXCEPT !.pc = "returned", !.refreshed = "failed", !.threw = TRUE]

\* the call record after refreshOAuth2Token has rejected: refreshTokens
\* rethrows and getValidTokens' catch returns null
AfterRefreshFailure(call) ==
    [call EXCEPT !.pc = "returned", !.refreshed = "failed", !.result = Null]

\* the stored bundle is deleted when its refresh is rejected
RefreshFail_ClearsTokens(c) ==
    /\ gvt[c].pc = "refreshing"
    /\ gvt' = [gvt EXCEPT ![c] = AfterRefreshFailure(gvt[c])]
    /\ sessionDead' = TRUE
    /\ tokensFile' = NoFile
    /\ UNCHANGED <<env, tool, now, ticks, issued, setupVars>>

\* refreshOAuth2Token rejects (revoked or expired refresh token, or any
\* transport error)
RefreshFail(c) ==
    /\ gvt[c].pc = "refreshing"
    /\ gvt' = [gvt EXCEPT ![c] = AfterRefreshFailure(gvt[c])]
    /\ sessionDead' = TRUE
    /\ UNCHANGED <<env, tool, tokensFile, now, ticks, issued, setupVars>>

\* writeFile opens the file for writing, which truncates it
SaveOpen(c) ==
    /\ gvt[c].pc = "saving"
    /\ tokensFile' = Partial
    /\ gvt' = [gvt EXCEPT ![c].pc = "writing"]
    /\ UNCHANGED <<env, tool, now, ticks, issued, sessionDead, setupVars>>

\* writeFile writes the text and resolves; the call returns the new bundle
SaveDone(c) ==
    /\ gvt[c].pc = "writing"
    /\ tokensFile' = Json(JSONstringify(gvt[c].fresh[1]))
    /\ gvt' = [gvt EXCEPT ![c].pc = "returned", ![c].saved = "ok",
                 ![c].result = gvt[c].fresh]
    /\ UNCHANGED <<env, tool, now, ticks, issued, sessionDead, setupVars>>

\* writeFile rejects (cannot open: file untouched; cannot write: file left
\* truncated); saveTokens and refreshTokens rethrow, getValidTokens
\* returns null
SaveFail(c) ==
    /\ gvt[c].pc \in {"saving", "writing"}
    /\ gvt' = [gvt EXCEPT ![c].pc = "returned", ![c].saved = "failed"]
    /\ UNCHANGED <<env, tool, tokensFile, now, ticks, issued, sessionDead, setupVars>>

\* the tool call takes the result
Return(c) ==
    /\ gvt[c].pc = "returned"
    /\ gvt' = [gvt EXCEPT ![c] = IdleCall]
    /\ UNCHANGED <<env, tool, tokensFile, now, ticks, issued, sessionDead, setupVars>>

\* true as soon as a bundle was loaded, whatever became of its refresh
IsAuthenticated_Loaded(call) == call.tokens # Null

\* isAuthenticated: tokens !== null for what getValidTokens returned
IsAuthenticated(call) == call.result # Null

\* -------------------------------------------------------------- setup-auth
\* testAuthentication: isAuthenticationAvailable, then getMyProfile; both go
\* through getValidTokens and every error is caught inside
AfterTest(phase, call) ==
    IF phase = "test1" /\ IsAuthenticated(call) THEN "test2" ELSE "tested"

\* main() calls setup(), which awaits isAuthenticated()
SetupStart ==
    /\ Running
    /\ setupPc = "init"
    /\ setupPc' = "authcheck"
    /\ gvt' = [gvt EXCEPT ![SetupCaller] = BeginCall(tokensFile, sessionDead)]
    /\ UNCHANGED <<env, tool, tokensFile, now, ticks, issued, sessionDead, exitCode,
                   liveState, codeVerifier, listening, timer, deadline,
                   promise, req, lastReq, exchangeCalls, redeemed, outcomes>>

\* the return after testAuthentication is missing: setup goes on to the
\* authorization flow
SetupAlreadyAuthenticated_FallsThrough ==
    /\ Running
    /\ setupPc = "authcheck"
    /\ gvt[SetupCaller].pc = "returned"
    /\ IsAuthenticated(gvt[SetupCaller])
    /\ gvt' = [gvt EXCEPT ![SetupCaller] = IdleCall]
    /\ liveState' = "st1"
    /\ codeVerifier' = "cv1"
    /\ timer' = "armed"
    /\ deadline' = now + TimeoutMs
    /\ promise' = Pending
    /\ setupPc' = "binding"
    /\ UNCHANGED <<env, tool, tokensFile, now, ticks, issued, sessionDead, exitCode,
                   listening, req, lastReq, exchangeCalls, redeemed, outcomes>>

\* isAuthenticated() is true: setup runs testAuthentication and returns
SetupAlreadyAuthenticated ==
    /\ Running
    /\ setupPc = "authcheck"
    /\ gvt[SetupCaller].pc = "returned"
    /\ IsAuthenticated(gvt[SetupCaller])
    /\ setupPc' = "test1"
    /\ gvt' = [gvt EXCEPT ![SetupCaller] = BeginCall(tokensFile, sessionDead)]
    /\ UNCHANGED <<env, tool, tokensFile, now, ticks, issued, sessionDead, exitCode,
                   liveState, codeVerifier, listening, timer, deadline,
                   promise, req, lastReq, exchangeCalls, redeemed, outcomes>>

SetupTestStep ==
    /\ Running
    /\ setupPc \in {"test1", "test2"}
    /\ gvt[SetupCaller].pc = "returned"
    /\ LET next == AfterTest(setupPc, gvt[SetupCaller])
       IN  /\ setupPc' = IF next = "tested" THEN "returned" ELSE next
           /\ gvt' = [gvt EXCEPT ![SetupCaller] =
                        IF next = "test2" THEN BeginCall(tokensFile, sessionDead)
                        ELSE IdleCall]
    /\ UNCHANGED <<env, tool, tokensFile, now, ticks, issued, sessionDead, exitCode,
                   liveState, codeVerifier, listening, timer, deadline,
                   promise, req, lastReq, exchangeCalls, redeemed, outcomes>>

\* what generateAuthLink returns: the URL, the verifier and the state are
\* three values the library makes together
AuthLink == [url |-> "url1", codeVerifier |-> "cv1", state |-> "st1"]

\* the values setup() prints and hands to the browser command
Shown(link) == {link.url}

\* isAuthenticated() is false: generateAuthLink, then startCallbackServer
\* creates the server, asks it to listen and arms the timer
SetupBeginAuthorization ==
    /\ Running
    /\ setupPc = "authcheck"
    /\ gvt[SetupCaller].pc = "returned"
    /\ ~IsAuthenticated(gvt[SetupCaller])
    /\ gvt' = [gvt EXCEPT ![SetupCaller] = IdleCall]
    /\ liveState' = AuthLink.state
    /\ codeVerifier' = AuthLink.codeVerifier
    /\ timer' = "armed"
    /\ deadline' = now + TimeoutMs
    /\ promise' = Pending
    /\ setupPc' = "binding"
    /\ UNCHANGED <<env, tool, tokensFile, now, ticks, issued, sessionDead, exitCode,
                   listening, req, lastReq, exchangeCalls, redeemed, outcomes>>

\* the listen callback resolves the promise; setup goes on to openBrowser
ListenOk ==
    /\ Running
    /\ setupPc = "binding"
    /\ listening' = TRUE
    /\ promise' = Resolve(promise)
    /\ setupPc' = "browser"
    /\ UNCHANGED <<env, tool, mgrVars, exitCode, liveState, codeVerifier, timer, deadline,
                   req, lastReq, exchangeCalls, redeemed, outcomes>>

\* the server's error event (port in use) rejects the promise; setup's catch
\* calls process.exit(1)
ListenError ==
    /\ Running
    /\ setupPc = "binding"
    /\ promise' = Reject(promise, "listen")
    /\ outcomes' = Append(outcomes, "BindFailed")
    /\ exitCode' = IF promise'.state = "rejected" THEN 1 ELSE exitCode
    /\ setupPc' = IF promise'.state = "rejected" THEN "exited" ELSE setupPc
    /\ UNCHANGED <<env, tool, mgrVars, liveState, codeVerifier, listening, timer, deadline,
                   req, lastReq, exchangeCalls, redeemed>>

\* a failed launch is not caught: setup's catch takes it
AfterOpenBrowser_Throws(launched) == IF launched THEN "returned" ELSE "threw"

\* where setup is after openBrowser: execAsync's rejection is caught and
\* logged, so setup goes on to its last messages and returns either way
AfterOpenBrowser(launched) == "returned"

\* openBrowser returns, whether or not the browser could be launched;
\* setup() and main() return
BrowserDone ==
    /\ Running
    /\ setupPc = "browser"
    /\ setupPc' = AfterOpenBrowser(env.browser)
    /\ UNCHANGED <<env, tool, mgrVars, exitCode, liveState, codeVerifier, listening, timer,
                   deadline, promise, req, lastReq, exchangeCalls, redeemed, outcomes>>

\* the 5-minute timer: server.close() and reject()
Timeout ==
    /\ Running
    /\ timer = "armed"
    /\ setupPc # "binding"
    /\ now >= deadline
    /\ timer' = "fired"
    /\ listening' = FALSE
    /\ promise' = Reject(promise, "timeout")
    /\ outcomes' = Append(outcomes, "TimedOut")
    /\ UNCHANGED <<env, tool, mgrVars, setupPc, exitCode, liveState, codeVerifier, deadline,
                   req, lastReq, exchangeCalls, redeemed>>

HandlersIdle == \A i \in ReqIds : req[i].pc \in {"none", "done"}

\* nothing keeps the event loop alive any more: the process ends with code 0
ProcessExit ==
    /\ Running
    /\ setupPc \in {"returned", "cleared", "nothingToClear", "clearFailed"}
    /\ ~listening
    /\ timer # "armed"
    /\ HandlersIdle
    /\ exitCode' = 0
    /\ setupPc' = "exited"
    /\ UNCHANGED <<env, tool, mgrVars, liveState, codeVerifier, listening, timer, deadline,
                   promise, req, lastReq, exchangeCalls, redeemed, outcomes>>

\* --------------------------------------------------------- setup-auth --reset
\* the unlink is lost: the file stays
Unlinked_Keeps(file) == file

\* fs.unlink removes the tokens file
Unlinked(file) == NoFile

\* the error of a failed unlink leaves clearTokens instead of being caught
AfterUnlinkFailure_Throws == "threw"

\* clearTokens' catch logs the error of a failed unlink and returns
AfterUnlinkFailure == "clearFailed"

\* main() calls reset(), which awaits clearTokens(): existsSync
ResetStart ==
    /\ Running
    /\ setupPc = "init"
    /\ setupPc' = IF tokensFile = NoFile THEN "nothingToClear" ELSE "unlinking"
    /\ UNCHANGED <<env, tool, mgrVars, exitCode, liveState, codeVerifier, listening, timer,
                   deadline, promise, req, lastReq, exchangeCalls, redeemed,
                   outcomes>>

\* fs.unlink resolves; reset() and main() return
UnlinkOk ==
    /\ Running
    /\ setupPc = "unlinking"
    /\ tokensFile' = Unlinked(tokensFile)
    /\ setupPc' = "cleared"
    /\ UNCHANGED <<env, tool, now, ticks, issued, gvt, sessionDead, exitCode, liveState,
                   codeVerifier, listening, timer, deadline, promise, req,
                   lastReq, exchangeCalls, redeemed, outcomes>>

\* fs.unlink rejects (e.g. EACCES): the file stays
UnlinkFail ==
    /\ Running
    /\ setupPc = "unlinking"
    /\ setupPc' = AfterUnlinkFailure
    /\ UNCHANGED <<env, tool, mgrVars, exitCode, liveState, codeVerifier, listening, timer,
                   deadline, promise, req, lastReq, exchangeCalls, redeemed,
                   outcomes>>

\* ------------------------------------------------------- callback listener
Queries ==
    { [k \in keys |-> IF k = "code" THEN "abc123"
                      ELSE IF k = "state" THEN st ELSE er] :
        keys \in SUBSET {"code", "state", "error"},
        st \in {"st1", "bad"}, er \in {"", "access_denied"} }

\* !query.key
Missing(query, key) == key \notin DOMAIN query \/ query[key] = ""

\* the comparison with this.state is lost
InvalidParameters_NoStateCheck(query, expected) ==
    \/ Missing(query, "code")
    \/ Missing(query, "state")

\* !code || !state || state !== this.state
InvalidParameters(query, expected) ==
    \/ Missing(query, "code")
    \/ Missing(query, "state")
    \/ query["state"] # expected

\* code and state are checked before the error parameter
Branch_StateCheckFirst(path, query, expected) ==
    IF path # "/callback" THEN "notfound"
    ELSE IF InvalidParameters(query, expected) THEN "invalid"
    ELSE IF ~Missing(query, "error") THEN "denied"
    ELSE "exchange"

\* the pathname is not looked at: every request is taken as a callback
Branch_NoPathCheck(path, query, expected) ==
    IF ~Missing(query, "error") THEN "denied"
    ELSE IF InvalidParameters(query, expected) THEN "invalid"
    ELSE "exchange"

\* which branch of the request handler a request takes
Branch(path, query, expected) ==
    IF path # "/callback" THEN "notfound"
    ELSE IF ~Missing(query, "error") THEN "denied"
    ELSE IF InvalidParameters(query, expected) THEN "invalid"
    ELSE "exchange"

\* the 500 page shows the verifier as well
ResponseData_ShowsVerifier(branch, query, verifier) ==
    IF branch = "denied" THEN {query["error"]}
    ELSE IF branch = "failed" THEN {"authError.message", verifier}
    ELSE {}

\* the values a response page is rendered from: ${error} in the 400 page of
\* a provider error, the message of authError in the 500 page
ResponseData(branch, query, verifier) ==
    IF branch = "denied" THEN {query["error"]}
    ELSE IF branch = "failed" THEN {"authError.message"}
    ELSE {}

\* a request arrives and the handler runs up to its first await
Request(i, path, query) ==
    /\ Running
    /\ listening
    /\ req[i].pc = "none"
    /\ \A j \in ReqIds : j < i => req[j].pc # "none"
    /\ lastReq' = [id |-> i, path |-> path, query |-> query]
    /\ LET branch == Branch(path, query, liveState)
       IN  CASE branch = "notfound" ->
                  /\ req' = [req EXCEPT ![i].pc = "done", ![i].response = 404]
                  /\ UNCHANGED <<listening, promise, outcomes, exchangeCalls>>
             [] branch = "denied" ->
                  /\ req' = [req EXCEPT ![i].pc = "done", ![i].response = 400,
                                        ![i].body = ResponseData(branch, query,
                                                                 codeVerifier)]
                  /\ listening' = FALSE
                  /\ promise' = Reject(promise, "denied")
                  /\ outcomes' = Append(outcomes, "Denied")
                  /\ UNCHANGED exchangeCalls
             [] branch = "invalid" ->
                  /\ req' = [req EXCEPT ![i].pc = "done", ![i].response = 400,
                                        ![i].body = ResponseData(branch, query,
                                                                 codeVerifier)]
                  /\ listening' = FALSE
                  /\ promise' = Reject(promise, "invalid")
                  /\ outcomes' = Append(outcomes, "Invalid")
                  /\ UNCHANGED exchangeCalls
             [] branch = "exchange" ->
                  /\ req' = [req EXCEPT ![i].pc = "exchanging",
                                        ![i].code = query["code"],
                                        ![i].verifier = codeVerifier]
                  /\ exchangeCalls' = exchangeCalls + 1
                  /\ UNCHANGED <<listening, promise, outcomes>>
    /\ UNCHANGED <<env, tool, mgrVars, setupPc, exitCode, liveState, codeVerifier, timer,
                   deadline, redeemed>>

\* the catch does not close the server
Closed_StaysOpen(isListening) == isListening

\* server.close(): the socket stops listening
Closed(isListening) == FALSE

\* a request arrives and the handler throws before it has dispatched on the
\* path (parse of req.url): the outer catch is server.close() and reject();
\* no response is written
HandlerThrows(i) ==
    /\ Running
    /\ listening
    /\ req[i].pc = "none"
    /\ \A j \in ReqIds : j < i => req[j].pc # "none"
    /\ lastReq' = [id |-> i, path |-> "", query |-> <<>>]
    /\ req' = [req EXCEPT ![i].pc = "done"]
    /\ listening' = Closed(listening)
    /\ promise' = Reject(promise, "error")
    /\ outcomes' = Append(outcomes, "HandlerError")
    /\ UNCHANGED <<env, tool, mgrVars, setupPc, exitCode, liveState, codeVerifier,
                   timer, deadline, exchangeCalls, redeemed>>

\* the 2-hour lifetime is lost: the bundle expires when it is issued
ExchangedTokens_NoLifetime(answer, t) ==
    TokensObject(answer.accessToken, answer.refreshToken, t)

\* the bundle exchangeCodeForTokens builds from the provider's answer
ExchangedTokens(answer, t) ==
    TokensObject(answer.accessToken, answer.refreshToken, t + TokenLifetimeMs)

\* expires_in of the provider's answer, in seconds: not sent, or one hour
DeclaredLifetimes == {Undefined, 3600}

\* loginWithOAuth2 resolves (the provider exchanges a code once);
\* exchangeCodeForTokens builds the bundle and starts saveTokens' writeFile
ExchangeOk(i) ==
    /\ Running
    /\ req[i].pc = "exchanging"
    /\ issued < MaxIssued
    /\ req[i].code \notin redeemed
    /\ redeemed' = redeemed \cup {req[i].code}
    /\ \E withRefresh \in BOOLEAN, expiresIn \in DeclaredLifetimes :
         req' = [req EXCEPT ![i].pc = "saving",
                   ![i].at = now,
                   ![i].expiresIn = expiresIn,
                   ![i].fresh = Some(ExchangedTokens(
                                   ProviderTokens(issued + 1, withRefresh), now))]
    /\ issued' = issued + 1
    /\ UNCHANGED <<env, tool, tokensFile, now, ticks, gvt, sessionDead, setupPc, exitCode,
                   liveState, codeVerifier, listening, timer, deadline, promise,
                   lastReq, exchangeCalls, outcomes>>

\* the handler's catch (authError): a 500 page, server.close(), reject()
ExchangeFailed(i) ==
    /\ req' = [req EXCEPT ![i].pc = "done", ![i].response = 500,
                          ![i].body = ResponseData("failed", <<>>, codeVerifier)]
    /\ listening' = FALSE
    /\ promise' = Reject(promise, "exchange")
    /\ outcomes' = Append(outcomes, "ExchangeFailed")

\* loginWithOAuth2 rejects (invalid, used or expired code, wrong verifier)
ExchangeFail(i) ==
    /\ Running
    /\ req[i].pc = "exchanging"
    /\ ExchangeFailed(i)
    /\ UNCHANGED <<env, tool, mgrVars, setupPc, exitCode, liveState, codeVerifier, timer,
                   deadline, lastReq, exchangeCalls, redeemed>>

HandlerSaveOpen(i) ==
    /\ Running
    /\ req[i].pc = "saving"
    /\ tokensFile' = Partial
    /\ req' = [req EXCEPT ![i].pc = "writing"]
    /\ UNCHANGED <<env, tool, now, ticks, issued, gvt, sessionDead, setupPc, exitCode,
                   liveState, codeVerifier, listening, timer, deadline, promise,
                   lastReq, exchangeCalls, redeemed, outcomes>>

\* writeFile resolves; the handler sends the success page, closes the
\* server and awaits testAuthentication
HandlerSaveDone(i) ==
    /\ Running
    /\ req[i].pc = "writing"
    /\ tokensFile' = Json(JSONstringify(req[i].fresh[1]))
    /\ sessionDead' = FALSE
    /\ req' = [req EXCEPT ![i].pc = "test1", ![i].response = 200]
    /\ listening' = FALSE
    /\ outcomes' = Append(outcomes, "Succeeded")
    /\ gvt' = [gvt EXCEPT ![ReqCaller(i)] = BeginCall(tokensFile', sessionDead')]
    /\ UNCHANGED <<env, tool, now, ticks, issued, setupPc, exitCode, liveState,
                   codeVerifier, timer, deadline, promise, lastReq,
                   exchangeCalls, redeemed>>

\* writeFile rejects: exchangeCodeForTokens rethrows into the handler's catch
HandlerSaveFail(i) ==
    /\ Running
    /\ req[i].pc \in {"saving", "writing"}
    /\ ExchangeFailed(i)
    /\ UNCHANGED <<env, tool, mgrVars, setupPc, exitCode, liveState, codeVerifier, timer,
                   deadline, lastReq, exchangeCalls, redeemed>>

\* testAuthentication goes on; when it is over the handler calls resolve()
HandlerTestStep(i) ==
    /\ Running
    /\ req[i].pc \in {"test1", "test2"}
    /\ gvt[ReqCaller(i)].pc = "returned"
    /\ LET next == AfterTest(req[i].pc, gvt[ReqCaller(i)])
       IN  /\ req' = [req EXCEPT ![i].pc = IF next = "tested" THEN "done" ELSE next]
           /\ gvt' = [gvt EXCEPT ![ReqCaller(i)] =
                        IF next = "test2" THEN BeginCall(tokensFile, sessionDead)
                        ELSE IdleCall]
           /\ promise' = IF next = "tested" THEN Resolve(promise) ELSE promise
    /\ UNCHANGED <<env, tool, tokensFile, now, ticks, issued, sessionDead, setupPc,
                   exitCode, liveState, codeVerifier, listening, timer, deadline,
                   lastReq, exchangeCalls, redeemed, outcomes>>

SetupCallers == {SetupCaller} \cup {ReqCaller(i) : i \in ReqIds}

SetupNext ==
    \/ Tick
    \/ SetupStart
    \/ SetupAlreadyAuthenticated
    \/ SetupTestStep
    \/ SetupBeginAuthorization
    \/ ListenOk
    \/ ListenError
    \/ BrowserDone
    \/ Timeout
    \/ ProcessExit
    \/ ResetStart
    \/ UnlinkOk
    \/ UnlinkFail
    \/ \E i \in ReqIds, query \in Queries : Request(i, "/callback", query)
    \/ \E i \in ReqIds : Request(i, "/favicon.ico", <<>>)
    \/ \E i \in ReqIds : HandlerThrows(i)
    \/ \E i \in ReqIds : ExchangeOk(i)
    \/ \E i \in ReqIds : ExchangeFail(i)
    \/ \E i \in ReqIds : HandlerSaveOpen(i)
    \/ \E i \in ReqIds : HandlerSaveDone(i)
    \/ \E i \in ReqIds : HandlerSaveFail(i)
    \/ \E i \in ReqIds : HandlerTestStep(i)
    \/ \E c \in SetupCallers : Running /\ LoadDone(c)
    \/ \E c \in SetupCallers : Running /\ RefreshOk(c)
    \/ \E c \in SetupCallers : Running /\ RefreshFail(c)
    \/ \E c \in SetupCallers : Running /\ SaveOpen(c)
    \/ \E c \in SetupCallers : Running /\ SaveDone(c)
    \/ \E c \in SetupCallers : Running /\ SaveFail(c)

\* the setup process finds no tokens file, a fresh bundle, or a bundle
\* inside the safety margin with or without a refresh token
SetupInit ==
    /\ Init
    /\ tokensFile \in {NoFile}
          \cup {Json(JSONstringify(TokensObject(1, r, StartTime + 4 * 60 * 1000))) :
                  r \in {Undefined, 1}}
          \cup {Json(JSONstringify(TokensObject(1, 1, StartTime + 60 * 60 * 1000)))}

SetupSpec == SetupInit /\ [][SetupNext]_vars

Next ==
    \/ Tick
    \/ \E c \in SrvCallers : GetValidTokens(c)
    \/ \E c \in SrvCallers : LoadDone(c)
    \/ \E c \in SrvCallers : RefreshOk(c)
    \/ \E c \in SrvCallers : RefreshFail(c)
    \/ \E c \in SrvCallers : SaveOpen(c)
    \/ \E c \in SrvCallers : SaveDone(c)
    \/ \E c \in SrvCallers : SaveFail(c)
    \/ \E c \in SrvCallers : Return(c)

Spec == Init /\ [][Next]_vars

\* ------------------------------------------------- saveTokens / loadTokens
\* one client that calls saveTokens(b) and then loadTokens()
StoreCaller == <<"srv", 1>>

SaveInputs ==
    { TokensObject(a, r, e) :
        a \in {1, 2}, r \in {Undefined, 1},
        e \in {Undefined, 0, StartTime + TokenLifetimeMs} }

\* saveTokens(b) up to its await of writeFile
SaveTokens(c, b) ==
    /\ gvt[c].pc = "idle"
    /\ gvt' = [gvt EXCEPT ![c] = [IdleCall EXCEPT !.pc = "saving", !.fresh = Some(b)]]
    /\ UNCHANGED <<env, tool, tokensFile, now, ticks, issued, sessionDead, setupVars>>

\* after saveTokens has resolved the client calls loadTokens(): existsSync
LoadTokens(c) ==
    /\ gvt[c].pc = "returned"
    /\ gvt[c].saved = "ok"
    /\ gvt' = [gvt EXCEPT ![c].pc = IF tokensFile = NoFile THEN "loaded" ELSE "loading",
                          ![c].result = Null]
    /\ UNCHANGED <<env, tool, tokensFile, now, ticks, issued, sessionDead, setupVars>>

\* readFile completes and loadTokens returns JSON.parse of the text
LoadTokensDone(c) ==
    /\ gvt[c].pc = "loading"
    /\ gvt' = [gvt EXCEPT ![c].pc = "loaded", ![c].result = ReadAndParse(tokensFile)]
    /\ UNCHANGED <<env, tool, tokensFile, now, ticks, issued, sessionDead, setupVars>>

\* the client is done with the loaded bundle
LoadTokensReturn(c) ==
    /\ gvt[c].pc = "loaded"
    /\ gvt' = [gvt EXCEPT ![c] = IdleCall]
    /\ UNCHANGED <<env, tool, tokensFile, now, ticks, issued, sessionDead, setupVars>>

StoreNext ==
    \/ \E b \in SaveInputs : SaveTokens(StoreCaller, b)
    \/ SaveOpen(StoreCaller)
    \/ SaveDone(StoreCaller)
    \/ SaveFail(StoreCaller)
    \/ Return(StoreCaller)
    \/ LoadTokens(StoreCaller)
    \/ LoadTokensDone(StoreCaller)
    \/ LoadTokensReturn(StoreCaller)

StoreSpec == Init /\ [][StoreNext]_vars

\* ------------------------------------------------------ tool-call dispatch
\* argument values: a string, a number or a boolean
Str(s) == [type |-> "string", str |-> s, num |-> 0]
Num(n) == [type |-> "number", str |-> "", num |-> n]
Bool(b) == [type |-> "boolean", str |-> "", num |-> IF b THEN 1 ELSE 0]

NoMax == -1
NoEnum == {}

\* zod field schemas; optional also stands for a field with a default
ZString(min, max, optional) ==
    [type |-> "string", min |-> min, max |-> max, enum |-> NoEnum,
     optional |-> optional]
ZNumber(min, max, optional) ==
    [type |-> "number", min |-> min, max |-> max, enum |-> NoEnum,
     optional |-> optional]
ZEnum(values) ==
    [type |-> "string", min |-> 0, max |-> NoMax, enum |-> values,
     optional |-> FALSE]
ZBoolean(optional) ==
    [type |-> "boolean", min |-> 0, max |-> NoMax, enum |-> NoEnum,
     optional |-> optional]

NonEmpty == ZString(1, NoMax, FALSE)
Limit(max) == ZNumber(1, max, TRUE)
NoFields == [k \in {} |-> NonEmpty]

\* XTools.schemas, by the tool name the handler dispatches on
Schemas ==
    [get_user_profile |-> [username |-> NonEmpty],
     get_user_timeline |-> [username |-> NonEmpty, limit |-> Limit(100)],
     search_tweets |-> [query |-> NonEmpty, limit |-> Limit(100)],
     get_user_followers |-> [username |-> NonEmpty, limit |-> Limit(1000)],
     get_user_following |-> [username |-> NonEmpty, limit |-> Limit(1000)],
     get_my_profile |-> NoFields,
     get_my_timeline |-> [limit |-> Limit(100)],
     get_my_bookmarks |-> [limit |-> Limit(100)],
     manage_bookmark |-> [tweetId |-> NonEmpty, action |-> ZEnum({"add", "remove"})],
     get_my_likes |-> [limit |-> Limit(100)],
     manage_like |-> [tweetId |-> NonEmpty, action |-> ZEnum({"like", "unlike"})],
     get_my_lists |-> NoFields,
     get_list |-> [listId |-> NonEmpty],
     get_list_tweets |-> [listId |-> NonEmpty, limit |-> Limit(100)],
     get_list_members |-> [listId |-> NonEmpty, limit |-> Limit(100)],
     create_list |-> [name |-> ZString(1, 25, FALSE),
                      description |-> ZString(0, 100, TRUE),
                      private |-> ZBoolean(TRUE)],
     update_list |-> [listId |-> NonEmpty,
                      name |-> ZString(1, 25, TRUE),
                      description |-> ZString(0, 100, TRUE),
                      private |-> ZBoolean(TRUE)],
     delete_list |-> [listId |-> NonEmpty],
     manage_list_member |-> [listId |-> NonEmpty, username |-> NonEmpty,
                             action |-> ZEnum({"add", "remove"})]]

\* the cases of the handler's switch
ToolNames == DOMAIN Schemas

\* the size a bound applies to: the length of a string, the number itself
Size(v) == IF v.type = "string" THEN Len(v.str) ELSE v.num

\* a value passes a field schema
Accepts(field, v) ==
    /\ v.type = field.type
    /\ field.type \in {"string", "number"}
       => /\ Size(v) >= field.min
          /\ field.max # NoMax => Size(v) <= field.max
    /\ field.enum # NoEnum => v.str \in field.enum

\* schema.parse(args) does not throw: args is an object, every field of the
\* schema that is there passes, and only optional fields are missing; keys
\* the schema does not know are dropped
Parses(schema, args) ==
    /\ args # Null
    /\ \A k \in DOMAIN schema :
         IF k \in DOMAIN args[1] THEN Accepts(schema[k], args[1][k])
         ELSE schema[k].optional

\* errors: what a case of the switch or a tool can throw
McpError(code) == [kind |-> "McpError", code |-> code]
ZodError == [kind |-> "ZodError", code |-> ""]
OtherError == [kind |-> "Error", code |-> ""]

\* the ZodError test is missing
Caught_NoZodTest(error) ==
    IF error.kind = "McpError" THEN error.code ELSE "InternalError"

\* the handler's catch: the code of the McpError that leaves the handler
Caught(error) ==
    IF error.kind = "McpError" THEN error.code
    ELSE IF error.kind = "ZodError" THEN "InvalidParams"
    ELSE "InternalError"

\* argument objects of the requests
ToolArgs ==
    {Null, Some([k \in {} |-> Str("")])}
    \cup {Some([username |-> Str(u)]) : u \in {"", "bob"}}
    \cup {Some([username |-> Str("bob"), limit |-> Num(n)]) : n \in {0, 1, 100, 101, 1000, 1001}}
    \cup {Some([limit |-> v]) : v \in {Num(50), Str("50")}}
    \cup {Some([query |-> Str("tla"), verbose |-> Bool(TRUE)])}
    \cup {Some([tweetId |-> Str("42"), action |-> Str(a)]) : a \in {"add", "like", "delete"}}
    \cup {Some([listId |-> v]) : v \in {Str("7"), Num(7)}}
    \cup {Some([name |-> Str(n), private |-> Bool(FALSE)]) :
            n \in {"friends", "a name of twenty-six chars"}}
    \cup {Some([listId |-> Str("7"), username |-> Str("bob"), action |-> Str("remove")])}

\* a CallTool request arrives: the switch on name, schema.parse(args), and
\* the call of the tool
CallTool(name, args) ==
    /\ tool.pc = "idle"
    /\ tool' =
         IF name \notin ToolNames
           THEN [NoToolCall EXCEPT !.pc = "responded", !.name = name, !.args = args,
                                   !.thrown = McpError("MethodNotFound"),
                                   !.response = Caught(McpError("MethodNotFound"))]
         ELSE IF ~Parses(Schemas[name], args)
           THEN [NoToolCall EXCEPT !.pc = "responded", !.name = name, !.args = args,
                                   !.thrown = ZodError,
                                   !.response = Caught(ZodError)]
         ELSE [NoToolCall EXCEPT !.pc = "running", !.name = name, !.args = args,
                                 !.invoked = TRUE]
    /\ UNCHANGED <<env, mgrVars, setupVars>>

\* the tool's promise resolves: its result is the handler's result
ToolReturns ==
    /\ tool.pc = "running"
    /\ tool' = [tool EXCEPT !.pc = "responded", !.response = "result"]
    /\ UNCHANGED <<env, mgrVars, setupVars>>

\* the tool's promise rejects (the XTools methods catch their own errors, so
\* this is an error from outside their try blocks)
ToolThrows(error) ==
    /\ tool.pc = "running"
    /\ tool' = [tool EXCEPT !.pc = "responded", !.thrown = error,
                            !.response = Caught(error)]
    /\ UNCHANGED <<env, mgrVars, setupVars>>

\* the response has been sent
ToolDone ==
    /\ tool.pc = "responded"
    /\ tool' = NoToolCall
    /\ UNCHANGED <<env, mgrVars, setupVars>>

DispatchNext ==
    \/ \E name \in ToolNames \cup {"get_dms", ""}, args \in ToolArgs :
         CallTool(name, args)
    \/ ToolReturns
    \/ \E error \in {OtherError, McpError("InvalidRequest")} : ToolThrows(error)
    \/ ToolDone

DispatchSpec == Init /\ [][DispatchNext]_vars

\* ----------------------------------------------------------------- startup
\* a process whose entry point has not yet built its OAuth2AuthManager, in
\* any environment; setupPc "serving" is the server process once it runs
StartInit ==
    /\ tokensFile \in {NoFile,
                        Json(JSONstringify(TokensObject(1, 1, StartTime + 4 * 60 * 1000)))}
    /\ now = StartTime
    /\ ticks = 0
    /\ issued = 1
    /\ gvt = [c \in Callers |-> IdleCall]
    /\ sessionDead = FALSE
    /\ setupPc = "start"
    /\ exitCode = Undefined
    /\ liveState = ""
    /\ codeVerifier = ""
    /\ listening = FALSE
    /\ timer = "unset"
    /\ deadline = 0
    /\ promise = Pending
    /\ req = [i \in ReqIds |-> NoRequest]
    /\ lastReq = NoLast
    /\ exchangeCalls = 0
    /\ redeemed = {}
    /\ outcomes = <<>>
    /\ env \in Envs
    /\ tool = NoToolCall

\* where an entry point is after new OAuth2AuthManager(): the constructor
\* throws when getConfig does, and the entry point's catch is process.exit(1)
Constructed(e, pc) == IF GetConfigThrows(e) THEN "exited" ELSE pc

\* setup-auth's main(): new OAuthSetup()
SetupMain ==
    /\ Running
    /\ setupPc = "start"
    /\ setupPc' = Constructed(env, "init")
    /\ exitCode' = IF setupPc' = "exited" THEN 1 ELSE exitCode
    /\ UNCHANGED <<env, tool, mgrVars, liveState, codeVerifier, listening, timer,
                   deadline, promise, req, lastReq, exchangeCalls, redeemed,
                   outcomes>>

\* the server's main(): new XProfileMCPServer() builds XTools, TwitterClient
\* and the OAuth2AuthManager
ServerMain ==
    /\ Running
    /\ setupPc = "start"
    /\ setupPc' = Constructed(env, "serving")
    /\ exitCode' = IF setupPc' = "exited" THEN 1 ELSE exitCode
    /\ UNCHANGED <<env, tool, mgrVars, liveState, codeVerifier, listening, timer,
                   deadline, promise, req, lastReq, exchangeCalls, redeemed,
                   outcomes>>

Serving == Running /\ setupPc = "serving"

\* the address the callback server is asked to listen on
ListenAddress == [host |-> "localhost", port |-> 3000]

StartNext ==
    \/ SetupMain
    \/ ServerMain
    \/ \E c \in SrvCallers : Serving /\ GetValidTokens(c)
    \/ \E c \in SrvCallers : Serving /\ LoadDone(c)
    \/ \E c \in SrvCallers : Serving /\ RefreshOk(c)
    \/ \E c \in SrvCallers : Serving /\ RefreshFail(c)
    \/ \E c \in SrvCallers : Serving /\ SaveOpen(c)
    \/ \E c \in SrvCallers : Serving /\ SaveDone(c)
    \/ \E c \in SrvCallers : Serving /\ SaveFail(c)
    \/ \E c \in SrvCallers : Serving /\ Return(c)
    \/ SetupStart
    \/ SetupAlreadyAuthenticated
    \/ SetupTestStep
    \/ SetupBeginAuthorization
    \/ ListenOk
    \/ ListenError
    \/ BrowserDone
    \/ ProcessExit
    \/ ResetStart
    \/ UnlinkOk
    \/ UnlinkFail
    \/ \E i \in ReqIds, query \in Queries : Request(i, "/callback", query)
    \/ \E i \in ReqIds : Request(i, "/favicon.ico", <<>>)
    \/ \E i \in ReqIds : HandlerThrows(i)
    \/ \E i \in ReqIds : ExchangeOk(i)
    \/ \E i \in ReqIds : ExchangeFail(i)
    \/ \E i \in ReqIds : HandlerSaveOpen(i)
    \/ \E i \in ReqIds : HandlerSaveDone(i)
    \/ \E i \in ReqIds : HandlerSaveFail(i)
    \/ \E i \in ReqIds : HandlerTestStep(i)
    \/ \E c \in SetupCallers : Running /\ LoadDone(c)
    \/ \E c \in SetupCallers : Running /\ RefreshOk(c)
    \/ \E c \in SetupCallers : Running /\ RefreshFail(c)
    \/ \E c \in SetupCallers : Running /\ SaveOpen(c)
    \/ \E c \in SetupCallers : Running /\ SaveDone(c)
    \/ \E c \in SetupCallers : Running /\ SaveFail(c)

StartSpec == StartInit /\ [][StartNext]_vars
\* ------------------------------------------------------------------ claims
Reached(outcome) == \E k \in 1..Len(outcomes) : outcomes[k] = outcome

\* the bundle a call loaded was inside the 5-minute margin when checked
LoadedNearExpiry(call) ==
    /\ call.tokens # Null
    /\ "expiresAt" \in DOMAIN call.tokens[1]
    /\ call.tokens[1]["expiresAt"] # 0
    /\ call.tokens[1]["expiresAt"] < call.checkedAt + 300000

LoadedRefreshToken(call) ==
    /\ call.tokens # Null
    /\ "refreshToken" \in DOMAIN call.tokens[1]
    /\ call.tokens[1]["refreshToken"] # 0

\* C1: a getValidTokens call that loaded a bundle inside the 5-minute margin
\* with a refresh token makes exactly one refresh call, and when
\* refreshTokens resolves the call returns the provider's new access token,
\* not the stored one.
C1_NearExpiryRefreshesOnce ==
    \A c \in Callers :
        /\ gvt[c].refreshCalls <= 1
        /\ (gvt[c].pc = "returned" /\ LoadedNearExpiry(gvt[c])
              /\ LoadedRefreshToken(gvt[c]))
           => /\ gvt[c].refreshCalls = 1
              /\ (gvt[c].refreshed = "ok" /\ gvt[c].saved = "ok")
                 => /\ gvt[c].result # Null
                    /\ gvt[c].result[1]["accessToken"] = gvt[c].answer[1].accessToken
                    /\ gvt[c].result[1]["accessToken"] # gvt[c].tokens[1]["accessToken"]

C1_Witness ==
    \E c \in Callers :
        /\ gvt[c].pc = "returned"
        /\ LoadedNearExpiry(gvt[c])
        /\ LoadedRefreshToken(gvt[c])
        /\ gvt[c].refreshed = "ok"
        /\ gvt[c].saved = "ok"
        /\ gvt[c].result # Null

\* C2: when the refresh call of a getValidTokens call fails, the call
\* returns null without throwing and has made that one refresh call only.
C2_RefreshFailureReturnsNull ==
    \A c \in Callers :
        gvt[c].refreshed = "failed"
        => /\ gvt[c].pc = "returned"
           /\ gvt[c].result = Null
           /\ ~gvt[c].threw
           /\ gvt[c].refreshCalls = 1

C2_Witness ==
    \E c \in Callers : gvt[c].pc = "returned" /\ gvt[c].refreshed = "failed"

\* C3: once a refresh has failed, every getValidTokens call made later
\* returns null until a code exchange has saved a new bundle.
C3_DeadSessionStaysAbsent ==
    \A c \in Callers :
        (gvt[c].pc = "returned" /\ gvt[c].afterFailure /\ sessionDead)
        => gvt[c].result = Null

\* C4: the code-for-token exchange is invoked at most once per
\* authorization attempt, whatever callbacks arrive.
C4_ExchangeAtMostOnce == exchangeCalls <= 1

Accepted(i) == req[i].pc # "none" /\ req[i].verifier # ""

\* C5: after a callback with the matching state has been accepted, no later
\* callback invokes exchange.
C5_ConsumedStateRejected ==
    [][(\E i \in ReqIds : Accepted(i)) => exchangeCalls' = exchangeCalls]_vars

\* a request arrives in this step
Arrives(i) == req[i].pc = "none" /\ req'[i].pc # "none" /\ lastReq'.id = i

ArrivesInvalid(i) ==
    /\ Arrives(i)
    /\ lastReq'.path = "/callback"
    /\ "error" \notin DOMAIN lastReq'.query
    /\ \/ "code" \notin DOMAIN lastReq'.query
       \/ "state" \notin DOMAIN lastReq'.query
       \/ lastReq'.query["state"] # liveState

\* C6: a /callback request without error parameter whose state is missing
\* or differs from the live state, or whose code is missing, is answered
\* 400 as invalid: no exchange call, no write to the tokens file, and the
\* listener is closed.
C6_InvalidCallbackRejected ==
    [][\A i \in ReqIds :
          ArrivesInvalid(i)
          => /\ exchangeCalls' = exchangeCalls
             /\ tokensFile' = tokensFile
             /\ ~listening'
             /\ req'[i].pc = "done"
             /\ req'[i].response = 400
             /\ outcomes' = Append(outcomes, "Invalid")]_vars

C6_Witness ==
    /\ lastReq.id \in ReqIds
    /\ lastReq.path = "/callback"
    /\ "error" \notin DOMAIN lastReq.query
    /\ "code" \in DOMAIN lastReq.query
    /\ "state" \in DOMAIN lastReq.query
    /\ lastReq.query["state"] # liveState
    /\ req[lastReq.id].response = 400
    /\ outcomes = <<"Invalid">>
    /\ ~listening

\* C7: when a callback carries a provider error, the listener is closed and
\* the promise the caller of startCallbackServer awaits is rejected with
\* that failure.
C7_DeniedDelivered ==
    Reached("Denied")
    => /\ ~listening
       /\ promise.state = "rejected"
       /\ promise.reason = "denied"

\* C8: when the 5-minute timer fires, the listener is closed and the
\* promise the caller of startCallbackServer awaits is rejected with the
\* timeout.
C8_TimeoutReported ==
    Reached("TimedOut")
    => /\ ~listening
       /\ promise.state = "rejected"
       /\ promise.reason = "timeout"

Failures == {"Denied", "Invalid", "ExchangeFailed", "TimedOut", "BindFailed"}

\* C9: the setup process ends with a non-zero exit code whenever the
\* listener reached a failure outcome.
C9_FailureExitsNonZero ==
    (exitCode # Undefined /\ \E f \in Failures : Reached(f)) => exitCode # 0

\* C10: after the listener's first terminal outcome no request is accepted
\* and no handler run goes on with a request.
C10_SingleShot ==
    [][outcomes # <<>>
       => \A i \in ReqIds :
            req[i].pc \in {"none", "exchanging", "saving", "writing"}
            => req'[i].pc = req[i].pc]_vars
\* the provider's answer to the exchange of request i, as the handler got it
Exchanged(i) == req[i].fresh[1]

\* C11: a callback with a code and the matching state calls exchange with
\* the codeVerifier generated together with that state; when the exchange
\* succeeds the bundle it returned is the content of the tokens file, and
\* the next getValidTokens call (its expiry check made less than 1 h 55 min
\* after the exchange) returns that access token without a refresh call.
C11_EndToEnd ==
    [][\A i \in ReqIds :
          /\ (req[i].pc = "none" /\ req'[i].pc = "exchanging")
             => /\ lastReq'.query["state"] = "st1"
                /\ req'[i].verifier = "cv1"
                /\ req'[i].code = lastReq'.query["code"]
          /\ (req[i].response # 200 /\ req'[i].response = 200)
             => /\ tokensFile' # NoFile /\ tokensFile' # Partial
                /\ tokensFile'[2]["accessToken"] = Exchanged(i)["accessToken"]
                /\ tokensFile'[2]["expiresAt"] = Exchanged(i)["expiresAt"]
                /\ Exchanged(i)["accessToken"] > 0
          /\ (req'[i].pc = "test1" /\ gvt'[ReqCaller(i)].pc = "returned"
                /\ gvt'[ReqCaller(i)].checkedAt < req'[i].at + 6900000)
             => /\ gvt'[ReqCaller(i)].result # Null
                /\ gvt'[ReqCaller(i)].result[1]["accessToken"]
                     = req'[i].fresh[1]["accessToken"]
                /\ gvt'[ReqCaller(i)].refreshCalls = 0]_vars

C11_Witness ==
    \E i \in ReqIds :
        /\ req[i].pc = "test1"
        /\ req[i].verifier = "cv1"
        /\ req[i].response = 200
        /\ gvt[ReqCaller(i)].pc = "returned"
        /\ gvt[ReqCaller(i)].result # Null
        /\ gvt[ReqCaller(i)].result[1]["accessToken"] = req[i].fresh[1]["accessToken"]
\* C12: a getValidTokens call on an empty store returns null at once,
\* without throwing, with no provider call and no write to the store.
C12_EmptyStoreAbsent ==
    [][\A c \in Callers :
          (gvt[c].pc = "idle" /\ gvt'[c].pc # "idle" /\ tokensFile = <<>>)
          => /\ gvt'[c].pc = "returned"
             /\ gvt'[c].result = Null
             /\ ~gvt'[c].threw
             /\ gvt'[c].refreshCalls = 0
             /\ issued' = issued
             /\ exchangeCalls' = exchangeCalls
             /\ tokensFile' = tokensFile]_vars

C12_Witness ==
    \E c \in SrvCallers :
        /\ tokensFile = NoFile
        /\ gvt[c].pc = "returned"
        /\ gvt[c].tokens = Null
        /\ gvt[c].result = Null

\* C13: a getValidTokens call that loaded a bundle inside the 5-minute
\* margin (or already expired) without refresh token returns null and makes
\* no provider call.
C13_NearExpiryNoRefreshTokenAbsent ==
    \A c \in Callers :
        (LoadedNearExpiry(gvt[c]) /\ ~LoadedRefreshToken(gvt[c]))
        => /\ gvt[c].pc = "returned"
           /\ gvt[c].result = Null
           /\ gvt[c].refreshCalls = 0
           /\ gvt[c].refreshed = "none"
           /\ ~gvt[c].threw

C13_Witness ==
    \E c \in SrvCallers :
        /\ gvt[c].pc = "returned"
        /\ LoadedNearExpiry(gvt[c])
        /\ ~LoadedRefreshToken(gvt[c])
        /\ gvt[c].tokens[1]["expiresAt"] < gvt[c].checkedAt
        /\ gvt[c].result = Null

\* the stored bundle expires later than 5 minutes from now
StoredFresh ==
    /\ Len(tokensFile) = 2
    /\ "expiresAt" \in DOMAIN tokensFile[2]
    /\ tokensFile[2]["expiresAt"] > now + 300000

\* C14: a getValidTokens call that reads a bundle expiring later than the
\* 5-minute margin returns that bundle, makes no provider call and leaves
\* the tokens file as it is.
C14_FreshBundleReturnedAsIs ==
    [][\A c \in Callers :
          (gvt[c].pc = "reading" /\ gvt'[c].pc # "reading" /\ StoredFresh)
          => /\ gvt'[c].pc = "returned"
             /\ gvt'[c].result = <<tokensFile[2]>>
             /\ gvt'[c].result[1]["accessToken"] = tokensFile[2]["accessToken"]
             /\ gvt'[c].refreshCalls = 0
             /\ issued' = issued
             /\ tokensFile' = tokensFile]_vars

C14_Witness ==
    \E c \in SrvCallers :
        /\ gvt[c].pc = "returned"
        /\ gvt[c].result # Null
        /\ gvt[c].result = gvt[c].tokens
        /\ "expiresAt" \in DOMAIN gvt[c].tokens[1]
        /\ gvt[c].tokens[1]["expiresAt"] > gvt[c].checkedAt + 300000
        /\ tokensFile = <<"json", gvt[c].tokens[1]>>
\* C15: a failed save of a bundle the provider issued reaches the caller of
\* getValidTokens as an error, not as null.
C15_SaveFaultSurfaced ==
    \A c \in Callers :
        (gvt[c].pc = "returned" /\ gvt[c].saved = "failed")
        => gvt[c].threw /\ gvt[c].refreshed = "ok"

\* C16: a load that completes while a save is writing the file returns a
\* complete bundle, never null.
C16_SaveAtomic ==
    [][\A c \in Callers :
          (/\ gvt[c].pc = "reading"
           /\ gvt'[c].pc # "reading"
           /\ \E w \in Callers \ {c} : gvt[w].pc = "writing")
          => gvt'[c].tokens # Null]_vars

\* C17: getValidTokens produces no credential from a stored record that is
\* no token bundle: whatever it returns has an accessToken.
C17_CorruptRecordAbsent ==
    \A c \in Callers :
        (gvt[c].pc = "returned" /\ gvt[c].result # Null)
        => /\ "accessToken" \in DOMAIN gvt[c].result[1]
           /\ gvt[c].result[1]["accessToken"] > 0
\* reset() returns in this step
ResetReturns ==
    /\ setupPc \in {"init", "unlinking"}
    /\ setupPc' \in {"cleared", "nothingToClear", "clearFailed"}

\* C18 as stated: whenever reset() has returned, load yields null.
C18_ResetThenLoadAbsent ==
    [][ResetReturns => ReadAndParse(tokensFile') = Null]_vars

\* C18 amended: when reset() returns after an unlink that did not fail, or
\* with nothing to delete, load yields null; on an empty store reset()
\* returns without error and the store stays empty.
C18_ClearedThenLoadAbsent ==
    [][/\ (ResetReturns /\ setupPc' # "clearFailed")
          => /\ tokensFile' = <<>>
             /\ ReadAndParse(tokensFile') = Null
       /\ (setupPc = "init" /\ setupPc' # "init" /\ setupPc' # "authcheck"
             /\ tokensFile = <<>>)
          => /\ setupPc' = "nothingToClear"
             /\ tokensFile' = <<>>
             /\ exitCode' = Undefined]_vars

C18_Witness ==
    /\ setupPc = "cleared"
    /\ tokensFile = NoFile
    /\ ReadAndParse(tokensFile) = Null

\* C19: reset() returns normally whether or not the unlink failed, and the
\* process then ends with exit code 0.
C19_ResetAlwaysSucceeds ==
    [][/\ (setupPc = "unlinking" /\ setupPc' # "unlinking")
          => /\ setupPc' \in {"cleared", "clearFailed"}
             /\ exitCode' = Undefined
       /\ (setupPc \in {"cleared", "nothingToClear", "clearFailed"}
             /\ exitCode' # Undefined)
          => exitCode' = 0]_vars

C19_Witness ==
    /\ setupPc = "clearFailed"
    /\ tokensFile # NoFile
    /\ exitCode = Undefined
BundleFields == {"accessToken", "refreshToken", "expiresAt"}

\* C20: loadTokens() right after saveTokens(b) has resolved returns a
\* bundle whose accessToken, refreshToken and expiresAt equal those of b,
\* whether or not b has a refreshToken or an expiresAt.
C20_RoundTrip ==
    \A c \in Callers :
        gvt[c].pc = "loaded"
        => /\ gvt[c].result # Null
           /\ \A k \in BundleFields :
                Field(gvt[c].result[1], k) = Field(gvt[c].fresh[1], k)

C20_Witness ==
    /\ gvt[StoreCaller].pc = "loaded"
    /\ gvt[StoreCaller].result # Null
    /\ gvt[StoreCaller].fresh[1]["refreshToken"] = Undefined
    /\ gvt[StoreCaller].fresh[1]["expiresAt"] = Undefined
    /\ gvt[StoreCaller].result[1]["accessToken"] = 2
    /\ DOMAIN gvt[StoreCaller].result[1] = {"accessToken"}
\* C21: when refreshTokens has resolved, the bundle written to the tokens
\* file and returned by the call carries the provider's new refresh token
\* when the provider sent one and the refresh token the call was made with
\* otherwise; it always carries a refresh token.
C21_RefreshTokenRetained ==
    [][\A c \in Callers :
          (gvt[c].pc = "writing" /\ gvt'[c].pc = "returned"
             /\ gvt[c].refreshed = "ok" /\ gvt'[c].saved = "ok")
          => LET sent == gvt[c].answer[1].refreshToken
                 expected == IF sent # Undefined THEN sent ELSE gvt[c].arg
             IN  /\ gvt'[c].result # Null
                 /\ "refreshToken" \in DOMAIN gvt'[c].result[1]
                 /\ gvt'[c].result[1]["refreshToken"] = expected
                 /\ gvt'[c].result[1]["refreshToken"] > 0
                 /\ Len(tokensFile') = 2
                 /\ "refreshToken" \in DOMAIN tokensFile'[2]
                 /\ tokensFile'[2]["refreshToken"] = expected]_vars

C21_Witness ==
    \E c \in SrvCallers :
        /\ gvt[c].pc = "returned"
        /\ gvt[c].refreshed = "ok"
        /\ gvt[c].saved = "ok"
        /\ gvt[c].answer[1].refreshToken = Undefined
        /\ gvt[c].result[1]["refreshToken"] = gvt[c].arg
        /\ Len(tokensFile) = 2
        /\ tokensFile[2]["refreshToken"] = gvt[c].arg
\* C22: the bundle of a successful code exchange expires at the time of the
\* exchange plus the lifetime the provider declared, and plus 2 hours only
\* when the provider declared none.
C22_DeclaredLifetimeUsed ==
    \A i \in ReqIds :
        req[i].fresh # Null
        => req[i].fresh[1]["expiresAt"]
             = req[i].at + (IF req[i].expiresIn # Undefined
                              THEN req[i].expiresIn * 1000
                              ELSE 7200000)
\* C23: at most one refresh call to the provider is in flight at any time:
\* no two getValidTokens calls wait for refreshOAuth2Token together.
C23_RefreshSerialized ==
    \A c \in Callers : \A d \in Callers \ {c} :
        ~(gvt[c].pc = "refreshing" /\ gvt[d].pc = "refreshing")
\* C24: in a process whose environment lacks X_CLIENT_ID or X_CLIENT_SECRET
\* (not set, or empty) either entry point ends with a non-zero exit code as
\* its first step, and nothing else ever happens: no authorization request,
\* no listener, no exchange, no provider call, no getValidTokens call and no
\* change of the tokens file.
C24_MissingConfigFailsFast ==
    [][(env.clientId \in {-1, 0} \/ env.clientSecret \in {-1, 0})
       => /\ setupPc = "start"
          /\ setupPc' = "exited"
          /\ exitCode' = 1
          /\ tokensFile' = tokensFile
          /\ gvt' = gvt
          /\ issued' = issued
          /\ exchangeCalls' = exchangeCalls
          /\ liveState' = ""
          /\ codeVerifier' = ""
          /\ ~listening'
          /\ timer' = "unset"]_vars

C24_Witness ==
    /\ env.clientId = 1
    /\ env.clientSecret = Undefined
    /\ setupPc = "exited"
    /\ exitCode = 1
    /\ gvt = [c \in Callers |-> IdleCall]
\* host and port of the redirect URIs in use
UriHost(uri) == "localhost"
UriPort(uri) == IF uri = "http://localhost:8080/callback" THEN 8080 ELSE 3000

\* C25: while the callback listener listens, its address is the host and
\* port of the configured redirect URI.
C25_ListenerBindsRedirectUri ==
    listening
    => LET uri == IF env.redirectUri = "" THEN "http://localhost:3000/callback"
                  ELSE env.redirectUri
       IN  /\ ListenAddress.host = UriHost(uri)
           /\ ListenAddress.port = UriPort(uri)
\* C26: a request to a path other than /callback (a request whose URL was
\* parsed and has another pathname) is answered 404 and changes
\* nothing else: the listener goes on listening, no outcome is recorded, the
\* promise is not settled, exchange is not called and the tokens file is not
\* touched, however many such requests arrive.
C26_OtherPathsNotFound ==
    [][\A i \in ReqIds :
          (Arrives(i) /\ lastReq'.path # "/callback" /\ lastReq'.path # "")
          => /\ req'[i].pc = "done"
             /\ req'[i].response = 404
             /\ listening'
             /\ outcomes' = outcomes
             /\ promise' = promise
             /\ exchangeCalls' = exchangeCalls
             /\ tokensFile' = tokensFile
             /\ timer' = timer
             /\ \A j \in ReqIds \ {i} : req'[j] = req[j]]_vars

C26_Witness ==
    /\ \A i \in ReqIds : req[i].response = 404
    /\ lastReq.path = "/favicon.ico"
    /\ listening
    /\ outcomes = <<>>
    /\ exchangeCalls = 0
\* C27: setup takes isAuthenticated() as true exactly when the getValidTokens
\* call behind it returned a bundle; that call may have refreshed and saved
\* the bundle, and when its refresh failed isAuthenticated() is false.
C27_IsAuthenticatedIffCredential ==
    [][(setupPc = "authcheck" /\ setupPc' # "authcheck")
       => /\ gvt[SetupCaller].pc = "returned"
          /\ (setupPc' = "test1") <=> (gvt[SetupCaller].result # <<>>)
          /\ (setupPc' = "binding") <=> (gvt[SetupCaller].result = <<>>)
          /\ gvt[SetupCaller].refreshed = "failed" => setupPc' = "binding"
          /\ gvt[SetupCaller].saved = "failed" => setupPc' = "binding"]_vars

C27_Witness ==
    /\ setupPc = "test1"
    /\ issued = 2
    /\ Len(tokensFile) = 2
    /\ tokensFile[2]["accessToken"] = 2
    /\ gvt[SetupCaller].pc = "reading"
\* C28: the codeVerifier of the authorization request is an argument of the
\* exchange call and of nothing else: it is not among the values setup()
\* prints or hands to the browser, and not among the values any response
\* page of the listener is rendered from.
C28_VerifierOnlyInExchange ==
    codeVerifier # ""
    => /\ codeVerifier \notin Shown(AuthLink)
       /\ \A i \in ReqIds :
            /\ codeVerifier \notin req[i].body
            /\ req[i].pc \notin {"none", "done"} => req[i].verifier = codeVerifier
            /\ req[i].response \in {400, 404} => req[i].verifier = ""

C28_Witness ==
    \E i \in ReqIds :
        /\ req[i].response = 500
        /\ req[i].verifier = "cv1"
        /\ req[i].body = {"authError.message"}
        /\ codeVerifier = "cv1"
\* C29: whenever a run of the request handler ends the flow (any end other
\* than the 404 answer: a rejected callback, a failed or successful
\* exchange, or an exception caught by the handler's outer catch) the
\* server has been closed.
C29_HandlerExitClosesListener ==
    [][\A i \in ReqIds :
          (req[i].pc # "done" /\ req'[i].pc \in {"done", "test1"}
             /\ req'[i].response # 404)
          => ~listening']_vars

C29_Witness ==
    \E i \in ReqIds :
        /\ req[i].pc = "done"
        /\ req[i].response = 0
        /\ lastReq.id = i
        /\ outcomes = <<"HandlerError">>
        /\ ~listening
\* C30: when the command that opens the browser fails, openBrowser returns
\* and setup() returns normally: the process is not ended, the listener is
\* as it was, the state and verifier of the authorization request are kept,
\* the promise is not rejected and no outcome is recorded.
C30_BrowserFailureHarmless ==
    [][(setupPc = "browser" /\ setupPc' # "browser" /\ ~env.browser)
       => /\ setupPc' = "returned"
          /\ exitCode' = Undefined
          /\ listening' = listening
          /\ liveState' = "st1"
          /\ codeVerifier' = "cv1"
          /\ promise' = promise
          /\ outcomes' = outcomes
          /\ timer' = timer]_vars

C30_Witness ==
    /\ ~env.browser
    /\ setupPc = "returned"
    /\ listening
    /\ liveState = "st1"
    /\ promise.state = "resolved"
    /\ outcomes = <<>>
    /\ exitCode = Undefined
\* C32: a listener reaches at most one of the terminal outcomes Succeeded,
\* Denied, Invalid, ExchangeFailed and TimedOut: in particular the timer
\* does not add TimedOut after a terminal callback, and a run never has
\* both TimedOut and Succeeded.
C32_OneTerminalOutcome ==
    /\ Cardinality({k \in 1..Len(outcomes) :
                      outcomes[k] \in {"Succeeded", "Denied", "Invalid",
                                       "ExchangeFailed", "TimedOut"}}) <= 1
    /\ ~(Reached("TimedOut") /\ Reached("Succeeded"))
\* C33: once two getValidTokens calls have both refreshed and saved, the
\* tokens file holds one of the two bundles whole, and it is the one the
\* provider issued last.
C33_LastWriteIsNewest ==
    \A c \in Callers : \A d \in Callers \ {c} :
        (/\ gvt[c].pc = "returned" /\ gvt[c].saved = "ok"
         /\ gvt[d].pc = "returned" /\ gvt[d].saved = "ok")
        => /\ Len(tokensFile) = 2
           /\ \/ tokensFile[2] = gvt[c].fresh[1]
              \/ tokensFile[2] = gvt[d].fresh[1]
           /\ tokensFile[2]["accessToken"] >= gvt[c].fresh[1]["accessToken"]
           /\ tokensFile[2]["accessToken"] >= gvt[d].fresh[1]["accessToken"]
\* C34: a bundle returned by getValidTokens either has no expiresAt (unset
\* or 0) or expires at least 5 minutes after the time of the call's expiry
\* check.
C34_ReturnedOutsideMargin ==
    \A c \in Callers :
        (gvt[c].pc = "returned" /\ gvt[c].result # Null)
        => \/ "expiresAt" \notin DOMAIN gvt[c].result[1]
           \/ gvt[c].result[1]["expiresAt"] = 0
           \/ gvt[c].result[1]["expiresAt"] >= gvt[c].checkedAt + 300000

C34_Witness ==
    \E c \in SrvCallers :
        /\ gvt[c].pc = "returned"
        /\ gvt[c].result # Null
        /\ gvt[c].refreshed = "ok"
        /\ gvt[c].tokens[1]["expiresAt"] < gvt[c].checkedAt + 300000
        /\ gvt[c].result[1]["expiresAt"] >= gvt[c].checkedAt + 300000
\* the stored bundle has an expiresAt other than 0 that is strictly less than
\* now + 5 minutes
StoredInsideMargin ==
    /\ "expiresAt" \in DOMAIN tokensFile[2]
    /\ tokensFile[2]["expiresAt"] # 0
    /\ tokensFile[2]["expiresAt"] < now + 300000

StoredRefreshToken ==
    /\ "refreshToken" \in DOMAIN tokensFile[2]
    /\ tokensFile[2]["refreshToken"] # 0

\* a call completes its read of a stored bundle in this step
ReadsBundle(c) ==
    gvt[c].pc = "reading" /\ gvt'[c].pc # "reading" /\ Len(tokensFile) = 2

\* C35 as stated: a call that reads a stored bundle makes a refresh call
\* exactly when the bundle's expiresAt is set, not 0, and strictly less than
\* now + 5 minutes.
C35_RefreshIffInsideMargin ==
    [][\A c \in Callers :
          ReadsBundle(c) => (gvt'[c].refreshCalls = 1 <=> StoredInsideMargin)]_vars

\* C35 amended: a call that reads a stored bundle makes a refresh call
\* exactly when the bundle's expiresAt is set, not 0, strictly less than
\* now + 5 minutes, and the bundle has a refresh token; a bundle whose
\* expiresAt equals now + 5 minutes, is 0 or is not set is returned as it is
\* with no provider call and no write, at any clock value.
C35_RefreshIffInsideMarginWithToken ==
    [][\A c \in Callers :
          ReadsBundle(c)
          => /\ gvt'[c].refreshCalls = 1 <=> (StoredInsideMargin /\ StoredRefreshToken)
             /\ ~StoredInsideMargin
                => /\ gvt'[c].pc = "returned"
                   /\ gvt'[c].result = <<tokensFile[2]>>
                   /\ gvt'[c].refreshCalls = 0
                   /\ issued' = issued
                   /\ tokensFile' = tokensFile]_vars

C35_Witness ==
    \E c \in SrvCallers :
        /\ gvt[c].pc = "returned"
        /\ gvt[c].result # Null
        /\ gvt[c].result = gvt[c].tokens
        /\ "expiresAt" \in DOMAIN gvt[c].tokens[1]
        /\ gvt[c].tokens[1]["expiresAt"] = gvt[c].checkedAt + 300000
        /\ "refreshToken" \in DOMAIN gvt[c].tokens[1]
        /\ gvt[c].refreshCalls = 0
\* C36: the step in which the provider rejects a refresh or a code exchange
\* does not touch the tokens file; with no other writer, after a failed
\* refresh the file still holds the bundle the call loaded, with the refresh
\* token it used.
C36_RejectionLeavesStore ==
    [][/\ \A c \in Callers :
            (gvt[c].pc = "refreshing" /\ gvt'[c].pc # "refreshing"
               /\ gvt'[c].refreshed = "failed")
            => tokensFile' = tokensFile
       /\ \A i \in ReqIds :
            (req[i].pc = "exchanging" /\ req'[i].pc = "done")
            => tokensFile' = tokensFile
       /\ (setupPc' = "authcheck" /\ gvt'[SetupCaller].refreshed = "failed")
          => /\ tokensFile' = <<"json", gvt'[SetupCaller].tokens[1]>>
             /\ tokensFile'[2]["refreshToken"] = gvt'[SetupCaller].arg]_vars

C36_Witness ==
    \E i \in ReqIds :
        /\ sessionDead
        /\ req[i].response = 500
        /\ req[i].verifier = "cv1"
        /\ req[i].fresh = Null
        /\ Len(tokensFile) = 2
        /\ tokensFile[2]["accessToken"] = 1
        /\ tokensFile[2]["refreshToken"] = 1
\* caller c has refreshed and saved, and the tokens file still holds the
\* bundle it saved
RefreshedAndStored(c) ==
    /\ gvt[c].pc = "returned"
    /\ gvt[c].refreshed = "ok"
    /\ gvt[c].saved = "ok"
    /\ tokensFile = <<"json", gvt[c].result[1]>>

\* C37: when a getValidTokens call has refreshed and saved, a following call
\* that reads the file while it still holds that bundle, less than 1 h 55 min
\* after the first call's expiry check, returns the refreshed access token
\* at once, with no provider call and no write.
C37_FollowingCallReusesRefreshed ==
    [][\A c \in Callers : \A d \in Callers \ {c} :
          (/\ RefreshedAndStored(c)
           /\ gvt[d].pc = "reading" /\ gvt'[d].pc # "reading"
           /\ now < gvt[c].checkedAt + 6900000)
          => /\ gvt'[d].pc = "returned"
             /\ gvt'[d].result # Null
             /\ gvt'[d].result[1]["accessToken"] = gvt[c].answer[1].accessToken
             /\ gvt'[d].refreshCalls = 0
             /\ issued' = issued
             /\ tokensFile' = tokensFile]_vars

C37_Witness ==
    \E c \in SrvCallers : \E d \in SrvCallers \ {c} :
        /\ RefreshedAndStored(c)
        /\ gvt[d].pc = "returned"
        /\ gvt[d].result = gvt[c].result
        /\ gvt[d].refreshCalls = 0
        /\ gvt[d].checkedAt > gvt[c].checkedAt
\* a /callback request with an error parameter arrives in this step
ArrivesWithError(i) ==
    /\ Arrives(i)
    /\ lastReq'.path = "/callback"
    /\ "error" \in DOMAIN lastReq'.query

\* C38 as stated: a /callback request that has an error parameter never
\* invokes exchange and closes the listener.
C38_ErrorNeverExchanges ==
    [][\A i \in ReqIds :
          ArrivesWithError(i)
          => /\ exchangeCalls' = exchangeCalls
             /\ ~listening']_vars

\* C38 amended: a /callback request whose error parameter is not empty never
\* invokes exchange, whatever its code and state: it is answered 400, the
\* listener is closed and the outcome is Denied, not Invalid.
C38_NonEmptyErrorNeverExchanges ==
    [][\A i \in ReqIds :
          (ArrivesWithError(i) /\ lastReq'.query["error"] # "")
          => /\ exchangeCalls' = exchangeCalls
             /\ ~listening'
             /\ req'[i].pc = "done"
             /\ req'[i].response = 400
             /\ req'[i].verifier = ""
             /\ outcomes' = Append(outcomes, "Denied")
             /\ tokensFile' = tokensFile]_vars

C38_Witness ==
    /\ lastReq.id \in ReqIds
    /\ lastReq.path = "/callback"
    /\ DOMAIN lastReq.query = {"code", "state", "error"}
    /\ lastReq.query["state"] = liveState
    /\ lastReq.query["error"] = "access_denied"
    /\ req[lastReq.id].response = 400
    /\ outcomes = <<"Denied">>
    /\ exchangeCalls = 0
    /\ ~listening
\* no authorization request, no listener, no timer, no request handled
NoFlow ==
    /\ liveState = ""
    /\ codeVerifier = ""
    /\ ~listening
    /\ timer = "unset"
    /\ promise = Pending
    /\ exchangeCalls = 0
    /\ outcomes = <<>>
    /\ \A i \in ReqIds : req[i].pc = "none"

\* setup() has found isAuthenticated() true, now or earlier
FoundAuthenticated ==
    \/ /\ setupPc = "authcheck"
       /\ gvt[SetupCaller].pc = "returned"
       /\ gvt[SetupCaller].result # Null
    \/ setupPc \in {"test1", "test2"}
    \/ setupPc \in {"returned", "exited"} /\ NoFlow

\* C39: once setup() has found a valid credential it never generates an
\* authorization request, starts the listener or its timer, or opens the
\* browser, and the tokens file changes only by the save of a refresh that
\* a getValidTokens call of setup made.
C39_AuthenticatedSetupStartsNothing ==
    [][(FoundAuthenticated /\ NoFlow)
       => /\ liveState' = "" /\ codeVerifier' = ""
          /\ ~listening' /\ timer' = "unset"
          /\ exchangeCalls' = 0 /\ outcomes' = <<>>
          /\ req' = req
          /\ setupPc' \in {"authcheck", "test1", "test2", "returned", "exited"}
          /\ tokensFile' # tokensFile
             => /\ gvt[SetupCaller].pc \in {"saving", "writing"}
                /\ gvt[SetupCaller].refreshed = "ok"]_vars

C39_Witness ==
    /\ setupPc = "returned"
    /\ liveState = ""
    /\ ~listening
    /\ timer = "unset"
    /\ issued = 2
    /\ Len(tokensFile) = 2
    /\ tokensFile[2]["accessToken"] = 2

\* the arguments of the handled request fail the schema of its tool
ArgsRejected ==
    /\ tool.name \in ToolNames
    /\ ~Parses(Schemas[tool.name], tool.args)

\* C40: every answered tool call follows the dispatcher's error mapping: a
\* name outside the registered set is answered MethodNotFound with no tool
\* invoked, arguments its tool's schema rejects are answered InvalidParams
\* with no tool invoked, an McpError leaves with the code it was thrown
\* with, and any other thrown error is answered InternalError
C40_DispatcherErrorMapping ==
    tool.pc = "responded" =>
        /\ tool.name \notin ToolNames
           => tool.response = "MethodNotFound" /\ ~tool.invoked
        /\ ArgsRejected
           => tool.response = "InvalidParams" /\ ~tool.invoked
        /\ tool.thrown.kind = "McpError" => tool.response = tool.thrown.code
        /\ tool.thrown.kind = "Error" => tool.response = "InternalError"
        /\ tool.thrown.kind = "none" => tool.response = "result" /\ tool.invoked

\* a call of a registered tool was answered after its schema rejected the
\* arguments
C40_Witness ==
    /\ tool.pc = "responded"
    /\ ArgsRejected
    /\ tool.args # Null
    /\ tool.response = "InvalidParams"
====
